---------------------------- MODULE Spec2Model ----------------------------
(***************************************************************************)
(* The pixel-processing unit of gb-emu (src/src/ppu.rs): its register      *)
(* bank, the bus accessors read_byte / write_byte, the frame pump draw,    *)
(* the mode scheduler step, the status-interrupt controller and the        *)
(* scanline compositor draw_line.                                          *)
(*                                                                         *)
(* The chip is the record ppu, one field per field of struct PPU and of    *)
(* struct PPURegisters.  The byte arrays memory, oam and the rows of the   *)
(* viewport are kept as functions over the entries that were ever written: *)
(* an absent entry holds its construction value (0, or a WHITE row).       *)
(***************************************************************************)
EXTENDS Integers, Naturals, Sequences, FiniteSets, TLC

VARIABLES ppu, ret, obs

vars == <<ppu, ret, obs>>

---------------------------------------------------------------------------
(* Program constants.                                                      *)

W_WIDTH == 160
W_HEIGHT == 144
LINE_CYCLES == 456
FRAME_CYCLES == 70224
QUANTUM == 4
QuantaPerFrame == FRAME_CYCLES \div QUANTUM

(* The four shades of decode_palette, lightest to darkest.                 *)
WHITE == 0
LIGHT == 1
DARK == 2
BLACK == 3

---------------------------------------------------------------------------
(* 8-bit arithmetic.                                                       *)

Pow2(n) == 2 ^ n

Bit(x, n) == (x \div Pow2(n)) % 2

U8(x) == x % 256

(* a | b and a & b on bytes, bit by bit.                                   *)
BitOr(a, b) ==
    LET or(w) == IF (a \div w) % 2 = 1 \/ (b \div w) % 2 = 1 THEN w ELSE 0
    IN or(1) + or(2) + or(4) + or(8) + or(16) + or(32) + or(64) + or(128)

BitAnd(a, b) ==
    LET and(w) == IF (a \div w) % 2 = 1 /\ (b \div w) % 2 = 1 THEN w ELSE 0
    IN and(1) + and(2) + and(4) + and(8) + and(16) + and(32) + and(64)
       + and(128)

BitNot(a) == 255 - a

B2N(b) == IF b THEN 1 ELSE 0

(* x & !(m << n) for the mask m of the w lowest bits: x with bits n to     *)
(* n + w - 1 cleared.                                                      *)
ClearBits(x, n, w) == x - ((x \div Pow2(n)) % Pow2(w)) * Pow2(n)

(* x | (v << n), where bits n and up of x that v reaches are clear.        *)
PutBits(x, n, v) == x + v * Pow2(n)

---------------------------------------------------------------------------
(* Construction: PPURegisters::new and PPU::new.                           *)

PPURegisters_new ==
    [LCDC |-> 0, LY |-> 0, LYC |-> 0, STAT |-> 128, SCY |-> 0, SCX |-> 0,
     WY |-> 0, WX |-> 0, WC |-> 0, BGP |-> 0, OBP0 |-> 0, OBP1 |-> 0,
     vblank |-> FALSE, stat |-> FALSE]

PPU_new ==
    [memory |-> <<>>,
     oam |-> <<>>,
     viewport |-> <<>>,
     registers |-> PPURegisters_new,
     display |-> [canvas |-> <<>>],
     enable_display_events |-> FALSE,
     block_stat_irqs |-> FALSE,
     cycles |-> 0,
     panicked |-> FALSE]

---------------------------------------------------------------------------
(* The memory map.                                                         *)

VRAM == 32768 .. 40959
OAM == 65024 .. 65183
LCDC_ADDR == 65344
STAT_ADDR == 65345
SCY_ADDR == 65346
SCX_ADDR == 65347
LY_ADDR == 65348
LYC_ADDR == 65349
BGP_ADDR == 65351
OBP0_ADDR == 65352
OBP1_ADDR == 65353
WY_ADDR == 65354
WX_ADDR == 65355

PANIC == -1

Cell(f, i) == IF i \in DOMAIN f THEN f[i] ELSE 0

Store(f, i, v) == [j \in DOMAIN f \cup {i} |-> IF j = i THEN v ELSE f[j]]

(* read_byte: the byte at addr, or PANIC for an address the match has no   *)
(* arm for.                                                                *)
read_byte(p, addr) ==
    CASE addr \in VRAM -> Cell(p.memory, addr - 32768)
      [] addr \in OAM -> Cell(p.oam, addr - 65024)
      [] addr = LCDC_ADDR -> p.registers.LCDC
      [] addr = STAT_ADDR -> p.registers.STAT
      [] addr = SCY_ADDR -> p.registers.SCY
      [] addr = SCX_ADDR -> p.registers.SCX
      [] addr = LY_ADDR -> p.registers.LY
      [] addr = LYC_ADDR -> p.registers.LYC
      [] addr = BGP_ADDR -> p.registers.BGP
      [] addr = OBP0_ADDR -> p.registers.OBP0
      [] addr = OBP1_ADDR -> p.registers.OBP1
      [] addr = WY_ADDR -> p.registers.WY
      [] addr = WX_ADDR -> p.registers.WX
      [] OTHER -> PANIC

(* Two faulty variants of write_byte, against which the bus properties    *)
(* are tried: one lands a write to SCX in SCY, the other ignores a write   *)
(* to an address the match has no arm for.                                 *)
write_byte_crossed(p, addr, val) ==
    CASE addr \in VRAM ->
            [p EXCEPT !.memory = Store(p.memory, addr - 32768, val)]
      [] addr \in OAM ->
            [p EXCEPT !.oam = Store(p.oam, addr - 65024, val)]
      [] addr = LCDC_ADDR -> [p EXCEPT !.registers.LCDC = val]
      [] addr = STAT_ADDR ->
            [p EXCEPT !.registers.STAT =
                          BitOr(p.registers.STAT, BitAnd(val, BitNot(7)))]
      [] addr = SCY_ADDR -> [p EXCEPT !.registers.SCY = val]
      [] addr = SCX_ADDR -> [p EXCEPT !.registers.SCY = val]
      [] addr = LYC_ADDR -> [p EXCEPT !.registers.LYC = val]
      [] addr = BGP_ADDR -> [p EXCEPT !.registers.BGP = val]
      [] addr = OBP0_ADDR -> [p EXCEPT !.registers.OBP0 = val]
      [] addr = OBP1_ADDR -> [p EXCEPT !.registers.OBP1 = val]
      [] addr = WY_ADDR -> [p EXCEPT !.registers.WY = val]
      [] addr = WX_ADDR -> [p EXCEPT !.registers.WX = val]
      [] OTHER -> [p EXCEPT !.panicked = TRUE]

write_byte_lenient(p, addr, val) ==
    CASE addr \in VRAM ->
            [p EXCEPT !.memory = Store(p.memory, addr - 32768, val)]
      [] addr \in OAM ->
            [p EXCEPT !.oam = Store(p.oam, addr - 65024, val)]
      [] addr = LCDC_ADDR -> [p EXCEPT !.registers.LCDC = val]
      [] addr = STAT_ADDR ->
            [p EXCEPT !.registers.STAT =
                          BitOr(p.registers.STAT, BitAnd(val, BitNot(7)))]
      [] addr = SCY_ADDR -> [p EXCEPT !.registers.SCY = val]
      [] addr = SCX_ADDR -> [p EXCEPT !.registers.SCX = val]
      [] addr = LYC_ADDR -> [p EXCEPT !.registers.LYC = val]
      [] addr = BGP_ADDR -> [p EXCEPT !.registers.BGP = val]
      [] addr = OBP0_ADDR -> [p EXCEPT !.registers.OBP0 = val]
      [] addr = OBP1_ADDR -> [p EXCEPT !.registers.OBP1 = val]
      [] addr = WY_ADDR -> [p EXCEPT !.registers.WY = val]
      [] addr = WX_ADDR -> [p EXCEPT !.registers.WX = val]
      [] OTHER -> p

(* write_byte: the chip after the write; panicked for an unmapped address. *)
write_byte(p, addr, val) ==
    CASE addr \in VRAM ->
            [p EXCEPT !.memory = Store(p.memory, addr - 32768, val)]
      [] addr \in OAM ->
            [p EXCEPT !.oam = Store(p.oam, addr - 65024, val)]
      [] addr = LCDC_ADDR -> [p EXCEPT !.registers.LCDC = val]
      [] addr = STAT_ADDR ->
            [p EXCEPT !.registers.STAT =
                          BitOr(p.registers.STAT, BitAnd(val, BitNot(7)))]
      [] addr = SCY_ADDR -> [p EXCEPT !.registers.SCY = val]
      [] addr = SCX_ADDR -> [p EXCEPT !.registers.SCX = val]
      [] addr = LYC_ADDR -> [p EXCEPT !.registers.LYC = val]
      [] addr = BGP_ADDR -> [p EXCEPT !.registers.BGP = val]
      [] addr = OBP0_ADDR -> [p EXCEPT !.registers.OBP0 = val]
      [] addr = OBP1_ADDR -> [p EXCEPT !.registers.OBP1 = val]
      [] addr = WY_ADDR -> [p EXCEPT !.registers.WY = val]
      [] addr = WX_ADDR -> [p EXCEPT !.registers.WX = val]
      [] OTHER -> [p EXCEPT !.panicked = TRUE]

(* A faulty variant of check_interrupts that leaves the stat latch up.     *)
check_interrupts_sticky(p) ==
    [res |-> <<p.registers.vblank, p.registers.stat>>,
     ppu |-> [p EXCEPT !.registers.vblank = FALSE]]

(* check_interrupts: the pair returned and the chip left behind.           *)
check_interrupts(p) ==
    [res |-> <<p.registers.vblank, p.registers.stat>>,
     ppu |-> [p EXCEPT !.registers.vblank = FALSE,
                       !.registers.stat = FALSE]]

(* A faulty variant of poll_display_event that leaves the flag up.         *)
poll_display_event_sticky(p) ==
    IF p.enable_display_events
    THEN [consulted |-> TRUE, ppu |-> p]
    ELSE [consulted |-> FALSE, ppu |-> p]

(* poll_display_event: whether the sink is consulted, and the chip left.   *)
poll_display_event(p) ==
    IF p.enable_display_events
    THEN [consulted |-> TRUE, ppu |-> [p EXCEPT !.enable_display_events = FALSE]]
    ELSE [consulted |-> FALSE, ppu |-> p]

---------------------------------------------------------------------------
(* The scanline compositor.                                                *)

(* decode_palette: the shade of a 2-bit colour index under BGP; PANIC for  *)
(* a field outside 0..3 (the match's last arm).                            *)
decode_palette(p, color) ==
    LET shade == (p.registers.BGP \div Pow2(2 * color)) % 4
    IN CASE shade = 0 -> WHITE
         [] shade = 1 -> LIGHT
         [] shade = 2 -> DARK
         [] shade = 3 -> BLACK
         [] OTHER -> PANIC

(* A faulty variant of tile_row_offset whose upper block starts at 0x9800. *)
tile_row_offset_high(p, tile_num, row_num) ==
    (IF Bit(p.registers.LCDC, 4) = 0 /\ tile_num <= 128 THEN 38912 ELSE 32768)
    + tile_num * 16 + 2 * row_num

tile_row_offset(p, tile_num, row_num) ==
    (IF Bit(p.registers.LCDC, 4) = 0 /\ tile_num <= 128 THEN 36864 ELSE 32768)
    + tile_num * 16 + 2 * row_num

(* decode_tile_row: the 8 colour indices of one tile row, leftmost first;  *)
(* fault when a read of the two bit-plane bytes panics.                    *)
decode_tile_row(p, tile_num, row_num) ==
    LET off == tile_row_offset(p, tile_num, row_num)
        hi == read_byte(p, off + 1)
        lo == read_byte(p, off)
    IN [fault |-> hi = PANIC \/ lo = PANIC,
        row |-> [c \in 0 .. 7 |->
                    LET i == 7 - c IN 2 * Bit(hi, i) + Bit(lo, i)]]

BlankRow == [x \in 0 .. W_WIDTH - 1 |-> WHITE]

Row(p, y) == IF y \in DOMAIN p.viewport THEN p.viewport[y] ELSE BlankRow

(* The state of the loops of draw_line: the row of the viewport being      *)
(* written, whether anything was stored to it, window_visible, and whether *)
(* the loops panicked (a faulting read, a palette field outside 0..3, a    *)
(* row or column index outside the viewport).                              *)
LineState(p) ==
    [row |-> Row(p, p.registers.LY), stored |-> FALSE,
     window_visible |-> FALSE, fault |-> FALSE]

(* self.viewport[LY][x] = self.decode_palette(color)                       *)
put_pixel(st, p, x, color) ==
    LET shade == decode_palette(p, color)
    IN IF \/ shade = PANIC
          \/ p.registers.LY >= W_HEIGHT
          \/ x \notin 0 .. W_WIDTH - 1
       THEN [st EXCEPT !.fault = TRUE]
       ELSE [st EXCEPT !.row[x] = shade, !.stored = TRUE]

(* for j in 0u8..8, background.                                            *)
RECURSIVE bg_columns(_, _, _, _, _)
bg_columns(st, p, bg_tile_row, i, j) ==
    IF j = 8 \/ st.fault
    THEN st
    ELSE LET bg_x == U8(8 * i + j - p.registers.SCX)
         IN IF bg_x < W_WIDTH
            THEN bg_columns(put_pixel(st, p, bg_x, bg_tile_row[j]),
                            p, bg_tile_row, i, j + 1)
            ELSE bg_columns(st, p, bg_tile_row, i, j + 1)

(* for i in 0u8..32, background.                                           *)
RECURSIVE bg_slots(_, _, _, _, _)
bg_slots(st, p, bg_tilemap, bg_y, i) ==
    IF i = 32 \/ st.fault
    THEN st
    ELSE LET bg_tile_num == read_byte(p, bg_tilemap + 32 * (bg_y \div 8) + i)
             bg_tile_row == decode_tile_row(p, bg_tile_num, bg_y % 8)
         IN IF bg_tile_num = PANIC \/ bg_tile_row.fault
            THEN [st EXCEPT !.fault = TRUE]
            ELSE bg_slots(bg_columns(st, p, bg_tile_row.row, i, 0),
                          p, bg_tilemap, bg_y, i + 1)

(* for j in 0..8, window.                                                  *)
RECURSIVE win_columns(_, _, _, _, _)
win_columns(st, p, win_tile_row, i, j) ==
    IF j = 8 \/ st.fault
    THEN st
    ELSE LET win_x == 8 * i + j + p.registers.WX
         IN IF win_x >= 7 /\ win_x < W_WIDTH
            THEN win_columns(put_pixel([st EXCEPT !.window_visible = TRUE],
                                       p, win_x - 7, win_tile_row[j]),
                             p, win_tile_row, i, j + 1)
            ELSE win_columns(st, p, win_tile_row, i, j + 1)

(* for i in 0u8..32, window.                                               *)
RECURSIVE win_slots(_, _, _, _)
win_slots(st, p, win_tilemap, i) ==
    IF i = 32 \/ st.fault
    THEN st
    ELSE LET wc == p.registers.WC
             win_tile_num == read_byte(p, win_tilemap + 32 * (wc \div 8) + i)
             win_tile_row == decode_tile_row(p, win_tile_num, wc % 8)
         IN IF win_tile_num = PANIC \/ win_tile_row.fault
            THEN [st EXCEPT !.fault = TRUE]
            ELSE win_slots(win_columns(st, p, win_tile_row.row, i, 0),
                           p, win_tilemap, i + 1)

(* A faulty variant of draw_line that ignores SCY.                         *)
draw_line_unscrolled(p) ==
    LET r == p.registers
        bg_tilemap == IF Bit(r.LCDC, 3) # 0 THEN 39936 ELSE 38912
        win_tilemap == IF Bit(r.LCDC, 6) # 0 THEN 39936 ELSE 38912
        bg_y == r.LY
        bg == IF Bit(r.LCDC, 0) # 0
              THEN bg_slots(LineState(p), p, bg_tilemap, bg_y, 0)
              ELSE LineState(p)
        win == IF ~bg.fault /\ Bit(r.LCDC, 5) # 0 /\ r.LY >= r.WY
               THEN win_slots(bg, p, win_tilemap, 0)
               ELSE bg
    IN IF Bit(r.LCDC, 7) = 0
       THEN p
       ELSE IF win.fault
       THEN [p EXCEPT !.panicked = TRUE]
       ELSE [p EXCEPT !.viewport = IF win.stored
                                   THEN Store(p.viewport, r.LY, win.row)
                                   ELSE p.viewport,
                      !.registers.WC = IF win.window_visible
                                       THEN U8(r.WC + 1)
                                       ELSE r.WC]

(* A faulty variant of draw_line that advances WC on every line on which   *)
(* the window is rendered, visible or not.                                 *)
draw_line_counting(p) ==
    LET r == p.registers
        bg_tilemap == IF Bit(r.LCDC, 3) # 0 THEN 39936 ELSE 38912
        win_tilemap == IF Bit(r.LCDC, 6) # 0 THEN 39936 ELSE 38912
        bg_y == U8(r.SCY + r.LY)
        bg == IF Bit(r.LCDC, 0) # 0
              THEN bg_slots(LineState(p), p, bg_tilemap, bg_y, 0)
              ELSE LineState(p)
        win == IF ~bg.fault /\ Bit(r.LCDC, 5) # 0 /\ r.LY >= r.WY
               THEN win_slots(bg, p, win_tilemap, 0)
               ELSE bg
    IN IF Bit(r.LCDC, 7) = 0
       THEN p
       ELSE IF win.fault
       THEN [p EXCEPT !.panicked = TRUE]
       ELSE [p EXCEPT !.viewport = IF win.stored
                                   THEN Store(p.viewport, r.LY, win.row)
                                   ELSE p.viewport,
                      !.registers.WC = IF Bit(r.LCDC, 5) # 0 /\ r.LY >= r.WY
                                       THEN U8(r.WC + 1)
                                       ELSE r.WC]

draw_line(p) ==
    LET r == p.registers
        bg_tilemap == IF Bit(r.LCDC, 3) # 0 THEN 39936 ELSE 38912
        win_tilemap == IF Bit(r.LCDC, 6) # 0 THEN 39936 ELSE 38912
        bg_y == U8(r.SCY + r.LY)
        bg == IF Bit(r.LCDC, 0) # 0
              THEN bg_slots(LineState(p), p, bg_tilemap, bg_y, 0)
              ELSE LineState(p)
        win == IF ~bg.fault /\ Bit(r.LCDC, 5) # 0 /\ r.LY >= r.WY
               THEN win_slots(bg, p, win_tilemap, 0)
               ELSE bg
    IN IF Bit(r.LCDC, 7) = 0
       THEN p
       ELSE IF win.fault
       THEN [p EXCEPT !.panicked = TRUE]
       ELSE [p EXCEPT !.viewport = IF win.stored
                                   THEN Store(p.viewport, r.LY, win.row)
                                   ELSE p.viewport,
                      !.registers.WC = IF win.window_visible
                                       THEN U8(r.WC + 1)
                                       ELSE r.WC]

---------------------------------------------------------------------------
(* The interrupt controller and the mode scheduler.                        *)

(* A faulty variant of req_stat_interrupt that does not set the           *)
(* suppression flag.                                                       *)
req_stat_interrupt_unblocked(p, bit) ==
    IF ~p.block_stat_irqs
       /\ Bit(p.registers.STAT, bit) # 0
       /\ bit \in 3 .. 6
    THEN [p EXCEPT !.registers.stat = TRUE]
    ELSE p

req_stat_interrupt(p, bit) ==
    IF ~p.block_stat_irqs
       /\ Bit(p.registers.STAT, bit) # 0
       /\ bit \in 3 .. 6
    THEN [p EXCEPT !.block_stat_irqs = TRUE, !.registers.stat = TRUE]
    ELSE p

(* A faulty variant of set_mode that clears the whole low nibble of STAT.  *)
set_mode_nibble(p, mode) ==
    LET q == [p EXCEPT !.registers.STAT =
                           PutBits(ClearBits(p.registers.STAT, 0, 4),
                                   0, mode % 4)]
    IN IF mode < 3 THEN req_stat_interrupt(q, mode + 3) ELSE q

set_mode(p, mode) ==
    LET q == [p EXCEPT !.registers.STAT =
                           PutBits(ClearBits(p.registers.STAT, 0, 2),
                                   0, mode % 4)]
    IN IF mode < 3 THEN req_stat_interrupt(q, mode + 3) ELSE q

clocks(p) == p.cycles % LINE_CYCLES

scanline(p) == U8(p.cycles \div LINE_CYCLES)

(* A faulty variant of step_line that lets WC run on into the next frame.  *)
step_line_running(p) ==
    LET q == IF scanline(p) # p.registers.LY
             THEN [p EXCEPT !.block_stat_irqs = FALSE]
             ELSE p
    IN [q EXCEPT !.registers.LY = scanline(p)]

(* step, "Start of a line".                                                *)
step_line(p) ==
    LET q == IF scanline(p) # p.registers.LY
             THEN [p EXCEPT !.block_stat_irqs = FALSE,
                            !.registers.WC =
                                IF scanline(p) = 0 THEN 0 ELSE p.registers.WC]
             ELSE p
    IN [q EXCEPT !.registers.LY = scanline(p)]

(* step, "Check for LY = LYC".                                             *)
step_coincidence(p) ==
    LET coincidence == p.registers.LY = p.registers.LYC
        q == IF coincidence /\ clocks(p) = 0
             THEN req_stat_interrupt(p, 6)
             ELSE p
    IN [q EXCEPT !.registers.STAT =
                     PutBits(ClearBits(q.registers.STAT, 2, 1),
                             2, B2N(coincidence))]

(* A faulty variant of step_mode that enters the vertical blank at offset  *)
(* 0 of every line from 144 on.                                            *)
step_mode_late(p) ==
    IF p.registers.LY < 144
    THEN CASE clocks(p) = 0 -> set_mode(p, 2)
           [] clocks(p) = 80 -> draw_line(set_mode(p, 3))
           [] clocks(p) = 252 -> set_mode(p, 0)
           [] OTHER -> p
    ELSE IF p.registers.LY >= 144 /\ clocks(p) = 0
    THEN set_mode([p EXCEPT !.registers.vblank = TRUE], 1)
    ELSE p

(* A faulty variant of step_mode that composites the line again when the   *)
(* horizontal blank begins.                                                *)
step_mode_redraw(p) ==
    IF p.registers.LY < 144
    THEN CASE clocks(p) = 0 -> set_mode(p, 2)
           [] clocks(p) = 80 -> draw_line(set_mode(p, 3))
           [] clocks(p) = 252 -> draw_line(set_mode(p, 0))
           [] OTHER -> p
    ELSE IF p.registers.LY = 144 /\ clocks(p) = 0
    THEN set_mode([p EXCEPT !.registers.vblank = TRUE], 1)
    ELSE p

(* step, "PPU Mode switching" and "V-blank".                               *)
step_mode(p) ==
    IF p.registers.LY < 144
    THEN CASE clocks(p) = 0 -> set_mode(p, 2)
           [] clocks(p) = 80 -> draw_line(set_mode(p, 3))
           [] clocks(p) = 252 -> set_mode(p, 0)
           [] OTHER -> p
    ELSE IF p.registers.LY = 144 /\ clocks(p) = 0
    THEN set_mode([p EXCEPT !.registers.vblank = TRUE], 1)
    ELSE p

step(p) == step_mode(step_coincidence(step_line(p)))

(* Display::draw as far as the chip can tell: the sink is handed a copy of *)
(* the frame and presents it.                                              *)
display_draw(d, pixels) == [d EXCEPT !.canvas = pixels]

(* A faulty variant of draw_advance that wraps, and hands the frame over,  *)
(* after half a frame.                                                     *)
draw_advance_early(p) ==
    LET a == [p EXCEPT !.cycles = p.cycles + QUANTUM]
    IN IF a.cycles > FRAME_CYCLES \div 2
       THEN [a EXCEPT !.cycles = a.cycles - FRAME_CYCLES \div 2,
                      !.enable_display_events = TRUE,
                      !.display = display_draw(a.display, a.viewport)]
       ELSE a

(* One turn of the loop of draw, up to the call of step.                   *)
draw_advance(p) ==
    LET a == [p EXCEPT !.cycles = p.cycles + QUANTUM]
    IN IF a.cycles > FRAME_CYCLES
       THEN [a EXCEPT !.cycles = a.cycles - FRAME_CYCLES,
                      !.enable_display_events = TRUE,
                      !.display = display_draw(a.display, a.viewport)]
       ELSE a

(* One turn of the loop of draw.                                           *)
draw_quantum(p) == step(draw_advance(p))

---------------------------------------------------------------------------
(* History variables: what an observer of the run has seen so far.  They   *)
(* read the chip and never feed back into it.                              *)
(*   stepped       the scheduler has stepped at least once                 *)
(*   last          the value last written to each address written so far   *)
(*   fault_addr    the address of the bus write that panicked, or -1       *)
(*   line_irqs     stores to the stat latch since LY last changed          *)
(*   bad_unblock   some step cleared block_stat_irqs although its derived  *)
(*                 scanline equalled LY                                    *)
(*   stray_latch   a latch went up across a step in which the scheduler    *)
(*                 stored to neither                                       *)
(*   since_vblank  steps since the last store to the vblank latch (since   *)
(*                 construction, before the first)                         *)
(*   pump          what the observer of the frame pump (watch_pump) has    *)
(*                 seen, in the runs of the pump alone:                    *)
(*   handed        a frame has been handed to the display sink             *)
(*   since_handoff steps since the last hand-off (since construction,      *)
(*                 before the first), the step of the hand-off not counted *)
(*   lines_drawn   calls of draw_line since the last hand-off              *)
(*   consulted     calls of poll_display_event since the last hand-off     *)
(*                 that reached the sink                                   *)
(*   elapsed       the sum of the cycles passed to draw so far, and        *)
(*   quanta        the number of steps so far; both are followed up to     *)
(*                 MaxElapsed cycles and dropped beyond                    *)

Pump_new ==
    [handed |-> FALSE, since_handoff |-> 0, lines_drawn |-> 0,
     consulted |-> 0, elapsed |-> 0, quanta |-> 0]

Obs_new ==
    [stepped |-> FALSE, last |-> <<>>, fault_addr |-> -1,
     line_irqs |-> 0, bad_unblock |-> FALSE, stray_latch |-> FALSE,
     since_vblank |-> 0, pump |-> Pump_new]

Min(a, b) == IF a < b THEN a ELSE b


Lowered(p) == [p EXCEPT !.registers.vblank = FALSE, !.registers.stat = FALSE]

(* The observer across one turn of the loop of draw, from the chip p the   *)
(* turn starts in to the chip q it ends in.  To see a store to a latch     *)
(* that is already up, it replays the three parts of step on a probe: the  *)
(* chip with both latches lowered before each part, and with the display   *)
(* switched off, so that the probe composites nothing.                     *)
watch_quantum(o, p, q) ==
    LET a == [p EXCEPT !.cycles = p.cycles + QUANTUM, !.registers.LCDC = 0]
        b == IF a.cycles > FRAME_CYCLES
             THEN [a EXCEPT !.cycles = a.cycles - FRAME_CYCLES]
             ELSE a
        l == step_line(Lowered(b))
        c == step_coincidence(Lowered(l))
        m == step_mode(Lowered(c))
        stat_stores == B2N(l.registers.stat) + B2N(c.registers.stat)
                       + B2N(m.registers.stat)
        vb == l.registers.vblank \/ c.registers.vblank \/ m.registers.vblank
        gap == Min(o.since_vblank + 1, 2 * (FRAME_CYCLES \div QUANTUM))
    IN [o EXCEPT
          !.stepped = TRUE,
          !.line_irqs = IF q.registers.LY # p.registers.LY
                        THEN stat_stores ELSE o.line_irqs + stat_stores,
          !.bad_unblock = o.bad_unblock
                          \/ (p.block_stat_irqs /\ ~l.block_stat_irqs
                              /\ scanline(b) = p.registers.LY),
          !.stray_latch = o.stray_latch
                          \/ (~p.registers.vblank /\ q.registers.vblank /\ ~vb)
                          \/ (~p.registers.stat /\ q.registers.stat
                              /\ stat_stores = 0),
          !.since_vblank = IF vb THEN 0 ELSE gap]

(* The loop of draw, over s.ppu, with the observer s.obs riding along.      *)
RECURSIVE draw_loop(_, _)
draw_loop(s, n) ==
    IF n = 0 \/ s.ppu.panicked
    THEN s
    ELSE LET q == draw_quantum(s.ppu)
         IN draw_loop([ppu |-> q, obs |-> watch_quantum(s.obs, s.ppu, q)],
                      n - 1)

draw(s, cycles_passed) == draw_loop(s, cycles_passed \div QUANTUM)

(* The loop of draw over the chip alone, for the scenarios that keep no    *)
(* history.                                                                *)
RECURSIVE draw_turns(_, _)
draw_turns(p, n) ==
    IF n = 0 \/ p.panicked
    THEN p
    ELSE draw_turns(draw_quantum(p), n - 1)

(* draw(cycles_passed), the history left as it is.                         *)
draw_alone(s, cycles_passed) ==
    [ppu |-> draw_turns(s.ppu, cycles_passed \div QUANTUM), obs |-> s.obs]

---------------------------------------------------------------------------
(* The driver's operations.  ret is what the last call handed back: Unit   *)
(* from draw and write_byte, which return (), and the value returned with  *)
(* the operation's name from the others.                                   *)

Unit == [op |-> "unit", res |-> <<>>]

Draw(e) ==
    /\ ~ppu.panicked
    /\ LET s == draw([ppu |-> ppu, obs |-> obs], e)
       IN ppu' = s.ppu /\ obs' = s.obs
    /\ ret' = Unit

WriteByte(addr, val) ==
    /\ ~ppu.panicked
    /\ LET q == write_byte(ppu, addr, val)
       IN /\ ppu' = q
          /\ obs' = IF q.panicked
                    THEN [obs EXCEPT !.fault_addr = addr]
                    ELSE [obs EXCEPT !.last = Store(obs.last, addr, val)]
    /\ ret' = Unit

CheckInterrupts ==
    /\ ~ppu.panicked
    /\ LET r == check_interrupts(ppu)
       IN /\ ppu' = r.ppu
          /\ ret' = [op |-> "check_interrupts", res |-> r.res]
    /\ UNCHANGED obs

PollDisplayEvent(event) ==
    /\ ~ppu.panicked
    /\ LET r == poll_display_event(ppu)
       IN /\ ppu' = r.ppu
          /\ ret' = [op |-> "poll_display_event",
                     res |-> IF r.consulted THEN event ELSE "None"]
          /\ obs' = [obs EXCEPT !.pump.consulted =
                                   Min(@ + B2N(r.consulted), 2)]

Init ==
    /\ ppu = PPU_new
    /\ ret = Unit
    /\ obs = Obs_new

---------------------------------------------------------------------------
(* The bus at large: the driver steps the chip, polls its interrupts and   *)
(* writes to sample addresses (every register, the edges of the two memory *)
(* ranges, addresses just outside the map), for the first MaxQuanta        *)
(* scheduler steps and to at most MaxAddrs distinct addresses.             *)

MaxQuanta == 120
MaxAddrs == 2

ElapsedVals == {4, 8}

(* <<address, value>> pairs the driver writes.                             *)
MappedWrites ==
    {<<LCDC_ADDR, 177>>, <<SCY_ADDR, 3>>, <<SCX_ADDR, 250>>,
     <<LYC_ADDR, 1>>, <<BGP_ADDR, 228>>, <<OBP0_ADDR, 210>>,
     <<OBP1_ADDR, 27>>, <<WY_ADDR, 1>>, <<WX_ADDR, 7>>,
     <<40959, 129>>, <<65024, 16>>}

StatWrites == {<<STAT_ADDR, 64>>, <<STAT_ADDR, 127>>}

(* Addresses no arm of read_byte matches, and the writes the driver makes  *)
(* to addresses no arm of write_byte matches.                              *)
UnmappedAddrs ==
    {0, 32767, 40960, 65023, 65184, 65343, 65350, 65356, 65535}

UnmappedWrites == {<<LY_ADDR, 5>>, <<40960, 5>>, <<65350, 5>>}

BusWrites == MappedWrites \cup StatWrites \cup UnmappedWrites

BusWrite(addr, val) ==
    /\ Cardinality(DOMAIN obs.last \cup {addr}) <= MaxAddrs
    /\ WriteByte(addr, val)

BusDraw(e) ==
    /\ ppu.cycles + e <= MaxQuanta * QUANTUM
    /\ Draw(e)

Next ==
    \/ \E e \in ElapsedVals : BusDraw(e)
    \/ \E w \in BusWrites : BusWrite(w[1], w[2])
    \/ CheckInterrupts

Spec == Init /\ [][Next]_vars

---------------------------------------------------------------------------
(* The long run: the driver steps the chip quantum by quantum through      *)
(* whole frames, polls its interrupts and, at any time, enables the four   *)
(* status interrupts and sets the compare register to the first line of    *)
(* the vertical blank.                                                     *)

FrameStatVals == {120}
FrameLycVals == {144}

NextFrame ==
    \/ Draw(QUANTUM)
    \/ CheckInterrupts
    \/ \E v \in FrameStatVals : WriteByte(STAT_ADDR, v)
    \/ \E v \in FrameLycVals : WriteByte(LYC_ADDR, v)

SpecFrame == Init /\ [][NextFrame]_vars

---------------------------------------------------------------------------
(* The compare scenario: the driver sets LYC to a target line and enables  *)
(* the coincidence interrupt alone before the first step, then steps the   *)
(* chip and polls.                                                         *)

LycTargets == {0, 10, 153}

Program(addr, val) ==
    /\ ~obs.stepped
    /\ WriteByte(addr, val)

NextLyc ==
    \/ \E l \in LycTargets : Program(LYC_ADDR, l)
    \/ Program(STAT_ADDR, 64)
    \/ Draw(QUANTUM)
    \/ CheckInterrupts

SpecLyc == Init /\ [][NextLyc]_vars

---------------------------------------------------------------------------
(* What the registers show.                                                *)

LY == ppu.registers.LY
LYC == ppu.registers.LYC
STAT == ppu.registers.STAT

(* STAT bits 3-6, the interrupt-source enables, in place.                  *)
Enables(stat) == ClearBits(stat, 7, 1) - (stat % 8)

---------------------------------------------------------------------------
(* C1: after every scheduler step LY equals cycles / 456 and lies in       *)
(* 0..153, and so does the byte read at 0xFF44.                            *)
C1_ScanlineWithinFrame ==
    obs.stepped =>
        /\ LY = ppu.cycles \div LINE_CYCLES
        /\ LY \in 0 .. 153
        /\ read_byte(ppu, LY_ADDR) \in 0 .. 153

(* C2: after every scheduler step STAT bits 0-1 are the mode of the        *)
(* elapsed time: with o = cycles % 456, mode 2 for o < 80, 3 for o < 252   *)
(* and 0 from there on lines below 144, and mode 1 from line 144 on.       *)
C2_ModeFollowsTime ==
    LET o == ppu.cycles % LINE_CYCLES
        mode == IF LY >= 144 THEN 1
                ELSE IF o < 80 THEN 2
                ELSE IF o < 252 THEN 3
                ELSE 0
    IN obs.stepped => (STAT % 4 = mode)

(* C3: once the scheduler has stepped, STAT bit 2 equals (LY = LYC) in     *)
(* every state the bus can observe, a write to LYC between steps included. *)
C3_CoincidenceBit ==
    obs.stepped => ((Bit(STAT, 2) = 1) <=> (LY = LYC))

(* C4: within one scanline the stat latch is stored to by at most one      *)
(* successful request, whichever enables are set and whether or not the    *)
(* driver polls or writes STAT or LYC in the middle of the line; only a    *)
(* step whose derived scanline differs from LY clears block_stat_irqs, and *)
(* no bus operation touches it.                                            *)
C4_OneStatLatchPerLine ==
    /\ obs.line_irqs <= 1
    /\ ~obs.bad_unblock
    /\ ~obs.stray_latch
    /\ check_interrupts(ppu).ppu.block_stat_irqs = ppu.block_stat_irqs
    /\ \A v \in FrameStatVals :
          write_byte(ppu, STAT_ADDR, v).block_stat_irqs = ppu.block_stat_irqs
    /\ \A v \in FrameLycVals :
          write_byte(ppu, LYC_ADDR, v).block_stat_irqs = ppu.block_stat_irqs

(* A line on which the mode 2 request succeeded, the driver polled the     *)
(* latch away, and the mode 0 request, enabled, was suppressed.            *)
C4_Witness ==
    /\ obs.line_irqs = 1
    /\ ppu.block_stat_irqs
    /\ ~ppu.registers.stat
    /\ Enables(STAT) = 120
    /\ LY \in 1 .. 143
    /\ clocks(ppu) >= 252

(* C5: the vblank latch is stored to by exactly the steps that bring LY to *)
(* 144 at offset 0; such a step comes 17556 quanta after the one before    *)
(* it; and no bus operation raises the latch.                              *)
C5_VblankOncePerFrame ==
    /\ obs.stepped =>
          (obs.since_vblank = 0 <=> (LY = 144 /\ clocks(ppu) = 0))
    /\ obs.since_vblank < QuantaPerFrame
    /\ (LY = 143 /\ clocks(ppu) = LINE_CYCLES - QUANTUM) =>
          obs.since_vblank =
              IF ppu.enable_display_events
              THEN QuantaPerFrame - 1
              ELSE (144 * LINE_CYCLES) \div QUANTUM - 1
    /\ ~obs.stray_latch
    /\ ~ppu.registers.vblank => ~check_interrupts(ppu).ppu.registers.vblank
    /\ \A v \in FrameStatVals :
          write_byte(ppu, STAT_ADDR, v).registers.vblank = ppu.registers.vblank
    /\ \A v \in FrameLycVals :
          write_byte(ppu, LYC_ADDR, v).registers.vblank = ppu.registers.vblank

(* The store of the second frame, a full frame after the first.            *)
C5_Witness ==
    /\ obs.stepped
    /\ obs.since_vblank = 0
    /\ ppu.registers.vblank
    /\ ppu.enable_display_events

(* C6: with LYC set to a target line and the coincidence interrupt alone   *)
(* enabled before the first step, on every line on which LY = LYC the step *)
(* that enters the line at offset 0 has set STAT bit 2 and stored to the   *)
(* stat latch; line 0 is included.                                         *)
C6_CompareFiresOnEveryLine ==
    (/\ obs.stepped
     /\ LYC_ADDR \in DOMAIN obs.last
     /\ STAT_ADDR \in DOMAIN obs.last
     /\ LY = LYC) =>
        /\ Bit(STAT, 2) = 1
        /\ obs.line_irqs = 1

(* C7: a write of v to 0xFF41 leaves STAT bits 3-6 equal to bits 3-6 of v, *)
(* set or clear, leaves bits 0-2 and bit 7 as they were, and a read of     *)
(* 0xFF41 returns just that.                                               *)
C7_StatWriteSetsEnables ==
    [][\A w \in StatWrites :
          BusWrite(w[1], w[2]) =>
              /\ Enables(STAT') = Enables(w[2])
              /\ STAT' % 8 = STAT % 8
              /\ Bit(STAT', 7) = Bit(STAT, 7)
              /\ read_byte(ppu', STAT_ADDR) = STAT']_vars

(* Addresses and values the round trip is tried on in every state, beside  *)
(* the writes the driver makes: the registers and the ends of both memory  *)
(* regions.                                                                *)
RoundTripAddrs ==
    {LCDC_ADDR, SCY_ADDR, SCX_ADDR, LYC_ADDR, BGP_ADDR, OBP0_ADDR, OBP1_ADDR,
     WY_ADDR, WX_ADDR, 32768, 40959, 65024, 65183}

RoundTripVals == {0, 129, 255}

(* C8: every location other than STAT that the driver has written reads    *)
(* back the value last written to it, whatever steps, polls and writes to  *)
(* other addresses have come between; and in every state a write to such a *)
(* location followed by a read returns the value written.                  *)
C8_WriteReadRoundTrip ==
    /\ \A a \in DOMAIN obs.last \ {STAT_ADDR} :
          read_byte(ppu, a) = obs.last[a]
    /\ \A a \in RoundTripAddrs : \A v \in RoundTripVals :
          read_byte(write_byte(ppu, a, v), a) = v

(* Two written locations, one of them the last byte of video memory, read  *)
(* back after the line compositor has run with the display on.             *)
C8_Witness ==
    /\ Cardinality(DOMAIN obs.last \ {STAT_ADDR}) = 2
    /\ {LCDC_ADDR, 40959} \subseteq DOMAIN obs.last
    /\ ppu.viewport # <<>>
    /\ clocks(ppu) > 80
    /\ ret.op = "check_interrupts"

(* C9: a read of an unmapped address panics and a write to one panics      *)
(* leaving the chip as it was; 0xFF44 reads LY and a write to it panics;   *)
(* a write the driver made to an unmapped address has not gone unnoticed,  *)
(* and nothing else has panicked.                                          *)
C9_UnmappedAccessFaults ==
    /\ \A a \in UnmappedAddrs :
          /\ read_byte(ppu, a) = PANIC
          /\ write_byte(ppu, a, 5) = [ppu EXCEPT !.panicked = TRUE]
    /\ read_byte(ppu, LY_ADDR) = LY
    /\ \A w \in UnmappedWrites :
          write_byte(ppu, w[1], w[2]) = [ppu EXCEPT !.panicked = TRUE]
    /\ ppu.panicked <=> obs.fault_addr \in {w[1] : w \in UnmappedWrites}
    /\ \A w \in UnmappedWrites : w[1] \notin DOMAIN obs.last

(* The driver wrote to LY after the scheduler had moved it off 0.          *)
C9_Witness ==
    /\ ppu.panicked
    /\ obs.fault_addr = LY_ADDR
    /\ LY = 1

(* C10: a step that returns from check_interrupts returns the two latches  *)
(* as they stood, leaves both down and the rest of the chip as it was; a   *)
(* poll that directly follows a poll returns (FALSE, FALSE).               *)
C10_PollReturnsAndResets ==
    [][ret'.op = "check_interrupts" =>
          /\ ret'.res = <<ppu.registers.vblank, ppu.registers.stat>>
          /\ ppu' = [ppu EXCEPT !.registers.vblank = FALSE,
                                !.registers.stat = FALSE]
          /\ (ret.op = "check_interrupts" => ret'.res = <<FALSE, FALSE>>)]_vars

(* A poll that found both latches up, with the suppression flag set.       *)
C10_Witness ==
    /\ ret = [op |-> "check_interrupts", res |-> <<TRUE, TRUE>>]
    /\ ppu.block_stat_irqs
    /\ ~ppu.registers.vblank
    /\ ~ppu.registers.stat

---------------------------------------------------------------------------
(* One scanline under the compositor.  The chip is brought to the last     *)
(* quantum before offset 80 of a line by the driver's own calls: it may    *)
(* switch the window on at construction, steps line by line to the line,   *)
(* loads video memory, programs the registers, and then steps once more,   *)
(* which composites the line.                                              *)

(* write_byte as the driver's call, with the observer riding along.        *)
bus_write(s, addr, val) ==
    LET q == write_byte(s.ppu, addr, val)
    IN [ppu |-> q,
        obs |-> IF q.panicked
                THEN [s.obs EXCEPT !.fault_addr = addr]
                ELSE [s.obs EXCEPT !.last = Store(s.obs.last, addr, val)]]

(* write_byte for each <<addr, val>> of a sequence, in order.              *)
RECURSIVE bus_writes(_, _)
bus_writes(s, ws) ==
    IF ws = <<>> \/ s.ppu.panicked
    THEN s
    ELSE bus_writes(bus_write(s, ws[1][1], ws[1][2]), Tail(ws))

(* write_byte(0x8000 + a, mem[a]) for every a: all of video memory loaded. *)
(* The observer's shadow of the bus is kept to the registers: the 8192     *)
(* bytes are not entered in it.                                            *)
bus_load(s, mem) == [ppu |-> [s.ppu EXCEPT !.memory = mem], obs |-> s.obs]

(* draw(456), n times.                                                     *)
RECURSIVE draw_lines(_, _)
draw_lines(s, n) ==
    IF n = 0 \/ s.ppu.panicked
    THEN s
    ELSE draw_lines(draw_alone(s, LINE_CYCLES), n - 1)

Constructed == [ppu |-> PPU_new, obs |-> Obs_new]

(* The chip at offset 76 of lines 0 and 9, the display off so far.         *)
DarkAtLine0 == draw_alone(Constructed, 76)
DarkAtLine9 == draw_alone(draw_lines(Constructed, 9), 76)

(* Line 9 with display and window switched on at construction (LCDC =      *)
(* 0xA0): the window has been drawn on each of the nine lines before.      *)
WindowAtLine9 ==
    draw_alone(draw_lines(bus_write(Constructed, LCDC_ADDR, 160), 9), 76)

(* Video memory as loaded: every byte differs from its neighbours, and the *)
(* tilemaps hold tile numbers on both sides of 0x80.                       *)
TileData == [a \in 0 .. 8191 |-> (a * 37 + a \div 256) % 256]

LineBases == {DarkAtLine0, DarkAtLine9, WindowAtLine9}

(* What the driver programs before the line is composited.  LCDC: 0x31     *)
(* display off; 0x81, 0x99 background alone, both tilemaps and both tile   *)
(* addressing modes; 0xA0, 0xE0 window alone, both tilemaps; 0xF1 both.    *)
BgPrograms ==
    [LCDC : {49, 129, 153}, SCX : {0, 5, 96, 97, 255}, SCY : {0, 200, 255},
     WX : {0}, WY : {0}, BGP : {228, 27}]

WinPrograms ==
    [LCDC : {49, 160, 224, 241}, SCX : {5}, SCY : {200},
     WX : {0, 7, 8, 159, 160, 166, 255}, WY : {0, 9, 10}, BGP : {228, 27}]

LinePrograms == BgPrograms \cup WinPrograms

LineWrites(g) ==
    << <<LCDC_ADDR, g.LCDC>>, <<SCX_ADDR, g.SCX>>, <<SCY_ADDR, g.SCY>>,
       <<WX_ADDR, g.WX>>, <<WY_ADDR, g.WY>>, <<BGP_ADDR, g.BGP>> >>

InitLine ==
    \E base \in LineBases : \E g \in LinePrograms :
        LET s == bus_writes(bus_load(base, TileData), LineWrites(g))
        IN /\ ppu = s.ppu
           /\ obs = s.obs
           /\ ret = Unit

(* The step that reaches offset 80.                                        *)
CompositeLine ==
    /\ clocks(ppu) = 76
    /\ Draw(QUANTUM)

NextLine == CompositeLine

SpecLine == InitLine /\ [][NextLine]_vars

(* The window pass of draw_line alone, over the row as it stands.          *)
window_pass(p) ==
    win_slots(LineState(p), p,
              IF Bit(p.registers.LCDC, 6) # 0 THEN 39936 ELSE 38912, 0)

(* Display on, window enabled, and the line at or below WY.                *)
WindowRendered(p) ==
    /\ Bit(p.registers.LCDC, 7) # 0
    /\ Bit(p.registers.LCDC, 5) # 0
    /\ p.registers.LY >= p.registers.WY

(* C11: the step that composites a line adds one to WC if the window is    *)
(* rendered and its pass stores at least one pixel, and leaves WC as it    *)
(* was otherwise: so with the window or the display off, with LY < WY, or  *)
(* with WX >= 160, WC does not change.                                     *)
C11_WindowCounterAdvance ==
    [][clocks(ppu') = 80 =>
          LET wrote == WindowRendered(ppu) /\ window_pass(ppu).stored
          IN /\ ppu'.registers.WC =
                    IF wrote THEN ppu.registers.WC + 1 ELSE ppu.registers.WC
             /\ (~WindowRendered(ppu) \/ ppu.registers.WX >= W_WIDTH) =>
                    ppu'.registers.WC = ppu.registers.WC
             /\ (WindowRendered(ppu) /\ ppu.registers.WX \in 7 .. 159) =>
                    ppu'.registers.WC = ppu.registers.WC + 1]_vars

(* Line 9 composited with the window enabled but off the right edge, after *)
(* nine lines on which it was drawn: WC stays 9.                           *)
C11_Witness ==
    /\ clocks(ppu) = 80
    /\ LY = 9
    /\ WindowRendered(ppu)
    /\ ppu.registers.WX = 255
    /\ ppu.registers.WC = 9
    /\ ~ppu.panicked

(* The shade the background shows at screen column x of line LY: the       *)
(* pixel at background column (x + SCX) mod 256 and row (SCY + LY) mod     *)
(* 256, found through the selected tilemap.                                *)
BgShade(p, x) ==
    LET r == p.registers
        col == (x + r.SCX) % 256
        row == (r.SCY + r.LY) % 256
        tilemap == IF Bit(r.LCDC, 3) # 0 THEN 39936 ELSE 38912
        tile_num == read_byte(p, tilemap + 32 * (row \div 8) + col \div 8)
    IN decode_palette(p, decode_tile_row(p, tile_num, row % 8).row[col % 8])

(* C12: with display and background on (and no window on the line), the    *)
(* step that composites line LY leaves in every column x of row LY the     *)
(* background pixel at column (x + SCX) mod 256, row (SCY + LY) mod 256,   *)
(* and leaves every other row as it was.                                   *)
C12_BackgroundWraps ==
    [][(/\ clocks(ppu') = 80
        /\ Bit(ppu.registers.LCDC, 7) # 0
        /\ Bit(ppu.registers.LCDC, 0) # 0
        /\ ~WindowRendered(ppu)) =>
          /\ ppu.registers.LY \in DOMAIN ppu'.viewport
          /\ \A x \in 0 .. W_WIDTH - 1 :
                Row(ppu', ppu.registers.LY)[x] = BgShade(ppu, x)
          /\ \A y \in 0 .. W_HEIGHT - 1 :
                y # ppu.registers.LY => Row(ppu', y) = Row(ppu, y)]_vars

(* Line 9 composited with SCX = 97 and SCY = 255: both positions wrap      *)
(* (column 159 shows background column 0, the line shows background row    *)
(* 8), and the row is not blank.                                           *)
C12_Witness ==
    /\ clocks(ppu) = 80
    /\ LY = 9
    /\ ppu.registers.LCDC = 153
    /\ ppu.registers.SCX = 97
    /\ ppu.registers.SCY = 255
    /\ 9 \in DOMAIN ppu.viewport
    /\ \E x \in 0 .. W_WIDTH - 1 : ppu.viewport[9][x] # WHITE
    /\ ppu.viewport[9][159] = BgShade(ppu, 159)

---------------------------------------------------------------------------
(* The frame pump on its own: the driver calls draw, also with cycle       *)
(* counts that are not multiples of 4, and polls the display for events.   *)

MaxElapsed == 16

(* A frame buffer no hand-off can pass on: it has a row 144.               *)
NoFrame == [y \in {W_HEIGHT} |-> BlankRow]

(* The observer of the pump across one turn of the loop of draw that       *)
(* starts in the chip p.  It replays the turn on a probe.  To see a        *)
(* hand-off, the probe's sink holds NoFrame; to see a call of draw_line,   *)
(* the probe has the window alone on, with WX = 159, WY = 0 and WC = 0, so *)
(* that a call stores one pixel and advances WC.                           *)
watch_pump(o, p) ==
    LET b == draw_advance([p EXCEPT !.display.canvas = NoFrame,
                                    !.registers.LCDC = 160,
                                    !.registers.WX = 159,
                                    !.registers.WY = 0,
                                    !.registers.WC = 0])
        c == step_coincidence(step_line(b))
        m == step_mode(c)
        handoff == b.display.canvas # NoFrame
        drawn == B2N(m.registers.WC # c.registers.WC)
        u == o.pump
    IN [o EXCEPT
          !.stepped = TRUE,
          !.pump = [handed |-> u.handed \/ handoff,
                    since_handoff |->
                        IF handoff THEN 0
                        ELSE Min(u.since_handoff + 1, 2 * QuantaPerFrame),
                    lines_drawn |->
                        Min((IF handoff THEN 0 ELSE u.lines_drawn) + drawn,
                            2 * W_HEIGHT),
                    consulted |-> IF handoff THEN 0 ELSE u.consulted,
                    elapsed |-> u.elapsed,
                    quanta |-> IF u.elapsed > MaxElapsed
                               THEN 0 ELSE u.quanta + 1]]

(* The loop of draw, with the pump's observer riding along.                *)
RECURSIVE pump_loop(_, _)
pump_loop(s, n) ==
    IF n = 0 \/ s.ppu.panicked
    THEN s
    ELSE pump_loop([ppu |-> draw_quantum(s.ppu),
                    obs |-> watch_pump(s.obs, s.ppu)], n - 1)

(* draw, the observer noting the cycles passed in.                         *)
pump(s, cycles_passed) ==
    LET total == s.obs.pump.elapsed + cycles_passed
        o == IF total > MaxElapsed
             THEN [s.obs EXCEPT !.pump.elapsed = MaxElapsed + 1,
                                !.pump.quanta = 0]
             ELSE [s.obs EXCEPT !.pump.elapsed = total]
    IN pump_loop([ppu |-> s.ppu, obs |-> o], cycles_passed \div QUANTUM)

Pump(e) ==
    /\ ~ppu.panicked
    /\ LET s == pump([ppu |-> ppu, obs |-> obs], e)
       IN ppu' = s.ppu /\ obs' = s.obs
    /\ ret' = Unit

PumpVals == {4, 6}

PollEvents == {"Quit"}

NextPump ==
    \/ \E e \in PumpVals : Pump(e)
    \/ \E event \in PollEvents : PollDisplayEvent(event)

SpecPump == Init /\ [][NextPump]_vars

(* The next turn of the loop of draw hands a frame to the sink.            *)
HandoffNext ==
    draw_advance([ppu EXCEPT !.display.canvas = NoFrame]).display.canvas
        # NoFrame

(* C13: a turn of the loop that hands a frame to the sink comes 17556      *)
(* quanta after the turn of the last hand-off, with draw_line called 144   *)
(* times in between (and as many times before the first hand-off), and not *)
(* while LY is a visible line; and a hand-off is never overdue.            *)
C13_HandoffOncePerFrame ==
    /\ HandoffNext =>
          /\ obs.pump.lines_drawn = W_HEIGHT
          /\ LY \notin 0 .. W_HEIGHT - 1
          /\ obs.pump.handed => obs.pump.since_handoff = QuantaPerFrame - 1
    /\ obs.pump.handed => obs.pump.since_handoff < QuantaPerFrame
    /\ (obs.pump.handed /\ obs.pump.since_handoff = 0) =>
          obs.pump.lines_drawn = 0

(* The chip one quantum before its second hand-off.                        *)
C13_Witness ==
    /\ HandoffNext
    /\ obs.pump.handed
    /\ obs.pump.since_handoff = QuantaPerFrame - 1
    /\ obs.pump.lines_drawn = W_HEIGHT

(* C14: between two hand-offs at most one call of poll_display_event       *)
(* reaches the sink, and none before the first hand-off: the flag is up    *)
(* exactly from a hand-off to the first poll after it, and a poll that     *)
(* finds it down returns None.                                             *)
C14_OnePollPerFrame ==
    /\ obs.pump.consulted <= 1
    /\ ~obs.pump.handed => obs.pump.consulted = 0
    /\ ppu.enable_display_events <=>
          (obs.pump.handed /\ obs.pump.consulted = 0)
    /\ (ret.op = "poll_display_event" /\ ret.res # "None") =>
          (obs.pump.handed /\ obs.pump.consulted = 1)
    /\ ~ppu.enable_display_events => ~poll_display_event(ppu).consulted

(* A second poll within one frame: it came back with None.                 *)
C14_Witness ==
    /\ obs.pump.handed
    /\ obs.pump.consulted = 1
    /\ ~ppu.enable_display_events
    /\ ret = [op |-> "poll_display_event", res |-> "None"]

(* The shade of the window pixel in tile slot i, column j of the window    *)
(* row WC, read through the window tile map and the palette.               *)
WinShade(p, i, j) ==
    LET r == p.registers
        win_tilemap == IF Bit(r.LCDC, 6) # 0 THEN 39936 ELSE 38912
        win_tile_num == read_byte(p, win_tilemap + 32 * (r.WC \div 8) + i)
    IN decode_palette(p, decode_tile_row(p, win_tile_num, r.WC % 8).row[j])

(* C15: on a line where the window is rendered, the window pixel of slot   *)
(* s, column c is in screen column 8*s + c + WX - 7 whenever that column   *)
(* is in 0 .. 159; with WX = 7 that is every column of the line.           *)
C15_WindowPosition ==
    [][(clocks(ppu') = 80 /\ WindowRendered(ppu)) =>
          \A i \in 0 .. 31 : \A j \in 0 .. 7 :
             LET x == 8 * i + j + ppu.registers.WX - 7
             IN x \in 0 .. W_WIDTH - 1 =>
                   Row(ppu', ppu.registers.LY)[x] = WinShade(ppu, i, j)]_vars

C17_ModeBitsChangeOnSchedule ==
    [][ppu'.cycles # ppu.cycles =>
          /\ ppu'.registers.STAT % 4 # ppu.registers.STAT % 4 =>
                \/ /\ ppu'.registers.LY < W_HEIGHT
                   /\ clocks(ppu') \in {0, 80, 252}
                \/ /\ ppu'.registers.LY = W_HEIGHT
                   /\ clocks(ppu') = 0
          /\ ppu'.registers.STAT \div 8 = ppu.registers.STAT \div 8]_vars

(* The step at offset 252 of line 10 has replaced mode 3 by mode 0 with    *)
(* every enable bit set by the driver still in place.                      *)
C17_Witness ==
    /\ obs.stepped
    /\ LY = 10
    /\ clocks(ppu) = 252
    /\ STAT % 4 = 0
    /\ STAT \div 8 = 31

(* C18: after calls of draw whose cycles total T (T within MaxElapsed),    *)
(* the scheduler has been stepped T \div 4 times and the cycle counter     *)
(* stands at 4 * (T \div 4).                                               *)
C18_NoCyclesLost ==
    obs.pump.elapsed <= MaxElapsed =>
       /\ obs.pump.quanta = obs.pump.elapsed \div QUANTUM
       /\ ppu.cycles = QUANTUM * (obs.pump.elapsed \div QUANTUM)

(* C19: compositing a line never faults.  No composited line leaves the    *)
(* chip panicked; for every tile index and tile row the two bytes of the   *)
(* tile row lie in video memory, in the chip's tile addressing mode; the   *)
(* window pass does not fault for the largest values of WC either; every   *)
(* colour index of a decoded row is in 0 .. 3 and every one of them has a  *)
(* shade; and the rows written are rows below 144 of 160 columns.          *)
C19_CompositingNeverFaults ==
    /\ ~ppu.panicked
    /\ \A tile_num \in 0 .. 255 : \A row_num \in 0 .. 7 :
          /\ tile_row_offset(ppu, tile_num, row_num) \in VRAM
          /\ tile_row_offset(ppu, tile_num, row_num) + 1 \in VRAM
    /\ \A tile_num \in {0, 127, 128, 129, 255} : \A c \in 0 .. 7 :
          /\ ~decode_tile_row(ppu, tile_num, 7).fault
          /\ decode_tile_row(ppu, tile_num, 7).row[c] \in 0 .. 3
    /\ \A color \in 0 .. 3 : decode_palette(ppu, color) # PANIC
    /\ clocks(ppu) = 76 =>
          \A wc \in {W_HEIGHT - 1, 255} :
             ~window_pass([ppu EXCEPT !.registers.WC = wc]).fault
    /\ \A y \in DOMAIN ppu.viewport :
          /\ y \in 0 .. W_HEIGHT - 1
          /\ DOMAIN ppu.viewport[y] = 0 .. W_WIDTH - 1

(* Line 9 composited from background row 209 of the map at 0x9800, whose   *)
(* slot 1 names tile 0x80, with LCDC bit 4 clear.                          *)
C19_Witness ==
    /\ clocks(ppu) = 80
    /\ LY = 9
    /\ ppu.registers.LCDC = 129
    /\ ppu.registers.SCY = 200
    /\ ppu.registers.SCX = 0
    /\ read_byte(ppu, 38912 + 32 * 26 + 1) = 128
    /\ tile_row_offset(ppu, 128, 1) = 38914
    /\ 9 \in DOMAIN ppu.viewport
    /\ ~ppu.panicked

---------------------------------------------------------------------------
(* The window scenario: the driver has the window alone on (LCDC = 0xA0,   *)
(* WX = 7, WY = 0), calls draw(456) line after line through the first      *)
(* frame and into the second, and rewrites LCDC, WX and WY as it likes     *)
(* when the chip stands at the start of a line of ToggleLines.  draw_line  *)
(* reads the three registers at offset 80 of a line only, so a write at    *)
(* any other point of a line acts as the same write at the start of the    *)
(* next line to be composited.                                             *)

(* The line of the second frame the scenario ends on.                      *)
EndLine == 3

ToggleLines == {0, 1, 60, 130, 143}

(* LCDC: 0xA0 window on, 0x80 window off, 0x20 display off.  WX: on the    *)
(* left edge, off the right edge.  WY: the top line, line 135.             *)
WinWrites ==
    {<<LCDC_ADDR, 160>>, <<LCDC_ADDR, 128>>, <<LCDC_ADDR, 32>>,
     <<WX_ADDR, 7>>, <<WX_ADDR, 160>>, <<WY_ADDR, 0>>, <<WY_ADDR, 135>>}

InitWin ==
    LET s == bus_writes(Constructed, << <<LCDC_ADDR, 160>>, <<WX_ADDR, 7>>,
                                        <<WY_ADDR, 0>> >>)
    IN /\ ppu = s.ppu
       /\ obs = s.obs
       /\ ret = Unit

DrawLine ==
    /\ ~ppu.panicked
    /\ ~(ppu.enable_display_events /\ ppu.registers.LY >= EndLine)
    /\ ppu' = draw_turns(ppu, LINE_CYCLES \div QUANTUM)
    /\ ret' = Unit
    /\ UNCHANGED obs

Toggle(addr, val) ==
    /\ clocks(ppu) = 0
    /\ ppu.registers.LY \in ToggleLines
    /\ WriteByte(addr, val)

NextWin ==
    \/ DrawLine
    \/ \E w \in WinWrites : Toggle(w[1], w[2])

SpecWin == InitWin /\ [][NextWin]_vars

(* The visible lines composited so far in the frame, at the start of line  *)
(* LY.                                                                     *)
LinesComposited == IF LY < W_HEIGHT THEN LY ELSE W_HEIGHT

(* C20: WC never exceeds the number of visible lines composited so far in  *)
(* the frame, so it is at most 144 and WC \div 8 is below 32; after line 0 *)
(* of a frame has been composited WC is at most 1, so it was 0 when the    *)
(* line was composited; and a composited line adds at most one to WC.      *)
C20_WindowCounterBounded ==
    /\ ppu.registers.WC <= LinesComposited
    /\ ppu.registers.WC <= W_HEIGHT
    /\ ppu.registers.WC \div 8 < 32
    /\ LY = 1 => ppu.registers.WC <= 1

(* The start of line 1 of the second frame, with the window drawn on line  *)
(* 0 of it and on every line of the first frame, where WC came to 144: WC  *)
(* is 1.                                                                   *)
C20_Witness ==
    /\ ppu.enable_display_events
    /\ LY = 1
    /\ ppu.registers.WC = 1
    /\ DOMAIN ppu.viewport = 0 .. W_HEIGHT - 1

=============================================================================
